---- MODULE Spec2Model ----
(***************************************************************************)
(* dotman: path normalization (normalize_path), the mapping store          *)
(* (FileMappings) and the link / unlink operations of App, src/src/app.rs. *)
(*                                                                         *)
(* A path (Path, PathBuf, &str) is the record [abs, segs]: abs says the    *)
(* text starts with the separator, segs are the texts between separators.  *)
(* A string that is compared as a string (a key of the table) is the       *)
(* sequence of its tokens, separators included (Str).                      *)
(***************************************************************************)
EXTENDS Integers, Sequences, FiniteSets, TLC

\* ---------------------------------------------------------------- bounds
\* longest input path (in segments) given to normalize_path on its own
MaxLen == 3

\* ------------------------------------------------------- paths as values
SEP == "/"

Abs(segs) == [abs |-> TRUE, segs |-> segs]
Rel(segs) == [abs |-> FALSE, segs |-> segs]

\* PathBuf::new()
EmptyPath == Rel(<<>>)

\* all sequences over S of length 0..n
SeqsUpTo(S, n) == UNION {[1..k -> S] : k \in 0..n}

RECURSIVE Join(_)
\* the segments joined by the separator, as tokens
Join(segs) ==
    IF segs = <<>> THEN <<>>
    ELSE IF Len(segs) = 1 THEN <<segs[1]>>
    ELSE <<segs[1], SEP>> \o Join(Tail(segs))

\* to_string_lossy(): the text of a path, as tokens
Str(p) == IF p.abs THEN <<SEP>> \o Join(p.segs) ELSE Join(p.segs)

\* Path::components(): the root first; empty segments and `.` dropped,
\* except a `.` that starts a relative path
RootDir == [kind |-> "RootDir", name |-> SEP]
CurDir == [kind |-> "CurDir", name |-> "."]
ParentDir == [kind |-> "ParentDir", name |-> ".."]
Normal(n) == [kind |-> "Normal", name |-> n]

\* a component iterator that yields CurDir for every `.`
RECURSIVE CompsOfKeepDot(_, _)
CompsOfKeepDot(segs, first) ==
    IF segs = <<>> THEN <<>>
    ELSE LET s == Head(segs)
             rest == Tail(segs)
         IN  IF s = "" THEN CompsOfKeepDot(rest, first)
             ELSE IF s = "." THEN <<CurDir>> \o CompsOfKeepDot(rest, FALSE)
             ELSE IF s = ".." THEN <<ParentDir>> \o CompsOfKeepDot(rest, FALSE)
             ELSE <<Normal(s)>> \o CompsOfKeepDot(rest, FALSE)

RECURSIVE CompsOf(_, _)
CompsOf(segs, first) ==
    IF segs = <<>> THEN <<>>
    ELSE LET s == Head(segs)
             rest == Tail(segs)
         IN  IF s = "" THEN CompsOf(rest, first)
             ELSE IF s = "." THEN
                 (IF first THEN <<CurDir>> ELSE <<>>) \o CompsOf(rest, FALSE)
             ELSE IF s = ".." THEN <<ParentDir>> \o CompsOf(rest, FALSE)
             ELSE <<Normal(s)>> \o CompsOf(rest, FALSE)

Components(p) ==
    IF p.abs THEN <<RootDir>> \o CompsOf(p.segs, FALSE)
    ELSE CompsOf(p.segs, TRUE)

\* PathBuf::push: an absolute argument replaces the buffer
Push(buf, p) ==
    IF p.abs THEN p ELSE [abs |-> buf.abs, segs |-> buf.segs \o p.segs]

\* PathBuf::pop: truncate to the parent; nothing to do at the root or when empty
Pop(buf) ==
    IF buf.segs = <<>> THEN buf
    ELSE [abs |-> buf.abs, segs |-> SubSeq(buf.segs, 1, Len(buf.segs) - 1)]

\* ------------------------------------------------------- normalize_path
\* the loop body of normalize_path (app.rs 319-331)
NormStep(result, comp, cwd) ==
    IF comp.kind = "RootDir" THEN Push(result, Abs(<<>>))
    ELSE IF comp.kind = "Normal" THEN Push(result, Rel(<<comp.name>>))
    ELSE IF comp.kind = "CurDir" THEN Push(result, cwd)
    ELSE Pop(result)

RECURSIVE NormLoop(_, _, _)
NormLoop(result, comps, cwd) ==
    IF comps = <<>> THEN result
    ELSE NormLoop(NormStep(result, Head(comps), cwd), Tail(comps), cwd)

\* a start that never looks at the first component
NormStartEmpty(comps, cwd) == EmptyPath

\* the buffer before the loop (app.rs 313-318)
NormStart(comps, cwd) ==
    IF comps # <<>> /\ comps[1].kind = "Normal"
    THEN Push(EmptyPath, cwd) ELSE EmptyPath

normalize_path(path, cwd) ==
    LET comps == Components(path)
    IN  NormLoop(NormStart(comps, cwd), comps, cwd)

\* ------------------------------------------------------------ the world
\* dirs::home_dir()
HomeDir == Abs(<<"h">>)
\* env::current_dir(): one of these for the whole run
CwdSet == {Abs(<<"h">>), Abs(<<"h", "p">>), Abs(<<"e">>)}

\* segments of the paths given to normalize_path on its own
NormSegs == {"a", "h", "~", ".", "..", ""}
\* (a relative text does not start with the separator)
NormInputs ==
    {[abs |-> b, segs |-> s] : b \in BOOLEAN, s \in SeqsUpTo(NormSegs, MaxLen)}
    \ {Rel(s) : s \in {t \in SeqsUpTo(NormSegs, MaxLen) : t # <<>> /\ t[1] = ""}}

\* the workspace: home joined with .dotfiles (app.rs 18-20)
Workspace == Push(HomeDir, Rel(<<".dotfiles">>))

\* the source paths given to the store and to link / unlink: plain, with a
\* leading `.`, absolute under and outside home, with `..` first and inside,
\* and with a directory literally named `~`
SrcInputs ==
    { Rel(<<"a">>), Rel(<<".", "a">>), Abs(<<"h", "a">>), Rel(<<"p", "..", "a">>),
      Rel(<<"..", "a">>), Abs(<<"e", "b">>), Rel(<<"~", "a">>) }

\* the destinations (relative to the workspace) given to add and to link
Dests == {Rel(<<"d1">>), Rel(<<"s", "d2">>)}

\* ------------------------------------------------------- FileMappings
\* BTreeMap::new()
NoEntries == [k \in {} |-> EmptyPath]

\* Path::strip_prefix: the components of base start those of p
HasPrefix(p, base) ==
    LET cp == Components(p)
        cb == Components(base)
    IN  /\ Len(cb) <= Len(cp)
        /\ SubSeq(cp, 1, Len(cb)) = cb

StripPrefix(p, base) ==
    LET cp == Components(p)
        cb == Components(base)
    IN  Rel([i \in 1..(Len(cp) - Len(cb)) |-> cp[Len(cb) + i].name])

\* a strip_src whose format leaves the separator out after `~`
strip_srcNoSep(src, wd) ==
    LET n == normalize_path(src, wd)
    IN  IF HasPrefix(n, HomeDir)
        THEN <<"~">> \o Str(StripPrefix(n, HomeDir))
        ELSE Str(n)

\* FileMappings::strip_src: the key of a source path
strip_src(src, wd) ==
    LET n == normalize_path(src, wd)
    IN  IF HasPrefix(n, HomeDir)
        THEN <<"~", SEP>> \o Str(StripPrefix(n, HomeDir))
        ELSE Str(n)

\* a contains that looks the text of src up as it was given, as get does
containsRaw(ents, src, wd) == Str(src) \in DOMAIN ents

\* FileMappings::contains
contains(ents, src, wd) == strip_src(src, wd) \in DOMAIN ents

\* an add that inserts over an occupied key
addOverwrite(ents, src, dst, wd) ==
    LET key == strip_src(src, wd)
    IN  [ok |-> TRUE,
         entries |-> [k \in DOMAIN ents \cup {key} |->
                         IF k = key THEN dst ELSE ents[k]]]

\* FileMappings::add: Err when the key is occupied, else insert
add(ents, src, dst, wd) ==
    LET key == strip_src(src, wd)
    IN  IF key \in DOMAIN ents
        THEN [ok |-> FALSE, entries |-> ents]
        ELSE [ok |-> TRUE,
              entries |-> [k \in DOMAIN ents \cup {key} |->
                              IF k = key THEN dst ELSE ents[k]]]

\* a remove that looks the key up and leaves the entry in the table
removeKeeps(ents, src, wd) ==
    [ok |-> strip_src(src, wd) \in DOMAIN ents, entries |-> ents]

\* a remove that reports success without looking at what BTreeMap::remove returned
removeUnchecked(ents, src, wd) ==
    LET key == strip_src(src, wd)
    IN  [ok |-> TRUE, entries |-> [k \in DOMAIN ents \ {key} |-> ents[k]]]

\* FileMappings::remove: Err when the key is absent, else delete
remove(ents, src, wd) ==
    LET key == strip_src(src, wd)
    IN  IF key \in DOMAIN ents
        THEN [ok |-> TRUE, entries |-> [k \in DOMAIN ents \ {key} |-> ents[k]]]
        ELSE [ok |-> FALSE, entries |-> ents]

\* FileMappings::get: looks the text of src up as it was given
get(ents, src) ==
    LET key == Str(src)
    IN  IF key \in DOMAIN ents
        THEN [ok |-> TRUE, path |-> Push(Push(EmptyPath, Workspace), ents[key])]
        ELSE [ok |-> FALSE, path |-> EmptyPath]

\* --------------------------------------------------- the filesystem
\* a location is the sequence of names from the root; a node is what is there
NoNode == [t |-> "none", c |-> "", to |-> EmptyPath]
DirNode == [t |-> "dir", c |-> "", to |-> EmptyPath]
FileNode(c) == [t |-> "file", c |-> c, to |-> EmptyPath]
LinkNode(to) == [t |-> "link", c |-> "", to |-> to]

Node(f, loc) == IF loc \in DOMAIN f THEN f[loc] ELSE NoNode

Write(f, loc, n) ==
    IF loc \in DOMAIN f THEN [f EXCEPT ![loc] = n]
    ELSE [l \in DOMAIN f \cup {loc} |-> IF l = loc THEN n ELSE f[l]]

ParentLoc(loc) == IF loc = <<>> THEN <<>> ELSE SubSeq(loc, 1, Len(loc) - 1)

\* symbolic links followed in one path resolution before it is given up
MaxFollow == 3
\* the number of processes of the tool started in one behaviour
MaxSessions == 2

NoLoc == [ok |-> FALSE, loc |-> <<>>]

RECURSIVE Walk(_, _, _, _, _)
\* path resolution by the system: `.` stays, `..` goes to the parent, a name
\* goes down; a symbolic link on the way (and at the end when follow) is
\* replaced by its target
Walk(f, cur, segs, follow, fuel) ==
    IF segs = <<>> THEN [ok |-> TRUE, loc |-> cur]
    ELSE LET s == Head(segs)
             rest == Tail(segs)
         IN  IF s \in {"", "."} THEN Walk(f, cur, rest, follow, fuel)
             ELSE IF s = ".." THEN Walk(f, ParentLoc(cur), rest, follow, fuel)
             ELSE LET loc == Append(cur, s)
                      n == Node(f, loc)
                  IN  IF n.t = "link" /\ (rest # <<>> \/ follow) THEN
                          IF fuel = 0 THEN NoLoc
                          ELSE Walk(f, IF n.to.abs THEN <<>> ELSE cur,
                                    n.to.segs \o rest, follow, fuel - 1)
                      ELSE IF rest = <<>> THEN [ok |-> TRUE, loc |-> loc]
                      ELSE IF n.t = "dir" THEN Walk(f, loc, rest, follow, fuel)
                      ELSE NoLoc

Resolve(f, p, wd, follow) ==
    IF p = EmptyPath THEN NoLoc
    ELSE Walk(f, IF p.abs THEN <<>> ELSE wd.segs, p.segs, follow, MaxFollow)

\* the node a path names, symbolic links followed (metadata) or not
Stat(f, p, wd, follow) ==
    LET r == Resolve(f, p, wd, follow)
    IN  IF r.ok THEN Node(f, r.loc) ELSE NoNode

\* Path::exists and Path::is_file: both follow symbolic links
Exists(f, p, wd) == Stat(f, p, wd, TRUE).t # "none"
IsFile(f, p, wd) == Stat(f, p, wd, TRUE).t = "file"

FsOk(f) == [ok |-> TRUE, fs |-> f]
FsErr(f) == [ok |-> FALSE, fs |-> f]

RECURSIVE MkdirAll(_, _)
\* fs::create_dir_all on an absolute location: the missing directories are
\* made from the top; a file in the way is an error
MkdirAll(f, loc) ==
    IF loc = <<>> \/ Node(f, loc).t = "dir" THEN FsOk(f)
    ELSE IF Node(f, loc).t # "none" THEN FsErr(f)
    ELSE LET up == MkdirAll(f, ParentLoc(loc))
         IN  IF up.ok THEN FsOk(Write(up.fs, loc, DirNode)) ELSE up

create_dir_all(f, p, wd) ==
    LET r == Resolve(f, p, wd, TRUE)
    IN  IF r.ok THEN MkdirAll(f, r.loc) ELSE FsErr(f)

\* fs::rename of a file or a symbolic link: the node moves, replacing a
\* file or link at the destination; a directory there is an error
rename(f, from, to, wd) ==
    LET rf == Resolve(f, from, wd, FALSE)
        rt == Resolve(f, to, wd, FALSE)
    IN  IF ~rf.ok \/ ~rt.ok THEN FsErr(f)
        ELSE IF Node(f, rf.loc).t \notin {"file", "link"} THEN FsErr(f)
        ELSE IF Node(f, ParentLoc(rt.loc)).t # "dir" THEN FsErr(f)
        ELSE IF Node(f, rt.loc).t = "dir" THEN FsErr(f)
        ELSE IF rf.loc = rt.loc THEN FsOk(f)
        ELSE FsOk(Write(Write(f, rt.loc, Node(f, rf.loc)), rf.loc, NoNode))

\* a create_symlink given the link's own path as the target
symlinkSelf(f, target, at, wd) ==
    LET r == Resolve(f, at, wd, FALSE)
    IN  IF ~r.ok \/ Node(f, r.loc).t # "none" THEN FsErr(f)
        ELSE FsOk(Write(f, r.loc, LinkNode(at)))

\* App::create_symlink (std::os::unix::fs::symlink): a link at `at` whose
\* text is target; an error when something is there already
symlink(f, target, at, wd) ==
    LET r == Resolve(f, at, wd, FALSE)
    IN  IF ~r.ok \/ Node(f, r.loc).t # "none" THEN FsErr(f)
        ELSE IF Node(f, ParentLoc(r.loc)).t # "dir" THEN FsErr(f)
        ELSE FsOk(Write(f, r.loc, LinkNode(target)))

\* fs::read_link: the text of a symbolic link, an error for anything else
read_link(f, p, wd) ==
    LET n == Stat(f, p, wd, FALSE)
    IN  [ok |-> n.t = "link", to |-> n.to]

\* fs::remove_file: removes a file or a symbolic link
remove_file(f, p, wd) ==
    LET r == Resolve(f, p, wd, FALSE)
    IN  IF r.ok /\ Node(f, r.loc).t \in {"file", "link"}
        THEN FsOk(Write(f, r.loc, NoNode)) ELSE FsErr(f)

\* ------------------------------------------------------------------ App
\* the system calls of link and unlink that may fail for a reason outside
\* the model (permissions, another device, a full disk)
LinkFails == {"none", "create_dir_all", "rename", "symlink"}
UnlinkFails == {"none", "read_link", "remove_file", "rename"}

Outcome(f, ents, step) == [fs |-> f, entries |-> ents, step |-> step]

\* dest_abs of App::link (app.rs 92-97)
DestAbs(dest) == Push(Push(EmptyPath, Workspace), dest)

\* a link that takes its entry back when the move fails
linkRollback(f, ents, source, dest, wd, fail) ==
    IF ~Exists(f, source, wd) THEN Outcome(f, ents, "exists")
    ELSE IF ~IsFile(f, source, wd) THEN Outcome(f, ents, "is_file")
    ELSE
    LET dest_abs == DestAbs(dest)
        mk == IF fail = "create_dir_all" THEN FsErr(f)
              ELSE create_dir_all(f, Pop(dest_abs), wd)
        ad == add(ents, source, dest, wd)
        mv == IF fail = "rename" THEN FsErr(mk.fs)
              ELSE rename(mk.fs, source, dest_abs, wd)
        sl == IF fail = "symlink" THEN FsErr(mv.fs)
              ELSE symlink(mv.fs, dest_abs, source, wd)
    IN  IF ~mk.ok THEN Outcome(mk.fs, ents, "create_dir_all")
        ELSE IF ~ad.ok THEN Outcome(mk.fs, ents, "add")
        ELSE IF ~mv.ok THEN Outcome(mk.fs, ents, "rename")
        ELSE IF ~sl.ok THEN Outcome(mv.fs, ad.entries, "symlink")
        ELSE Outcome(sl.fs, ad.entries, "done")

\* App::link; step is where it returned, "done" after `Linked!`
link(f, ents, source, dest, wd, fail) ==
    IF ~Exists(f, source, wd) THEN Outcome(f, ents, "exists")
    ELSE IF ~IsFile(f, source, wd) THEN Outcome(f, ents, "is_file")
    ELSE
    LET dest_abs == DestAbs(dest)
        mk == IF fail = "create_dir_all" THEN FsErr(f)
              ELSE create_dir_all(f, Pop(dest_abs), wd)
        ad == add(ents, source, dest, wd)
        mv == IF fail = "rename" THEN FsErr(mk.fs)
              ELSE rename(mk.fs, source, dest_abs, wd)
        sl == IF fail = "symlink" THEN FsErr(mv.fs)
              ELSE symlink(mv.fs, dest_abs, source, wd)
    IN  IF ~mk.ok THEN Outcome(mk.fs, ents, "create_dir_all")
        ELSE IF ~ad.ok THEN Outcome(mk.fs, ents, "add")
        ELSE IF ~mv.ok THEN Outcome(mk.fs, ad.entries, "rename")
        ELSE IF ~sl.ok THEN Outcome(mv.fs, ad.entries, "symlink")
        ELSE Outcome(sl.fs, ad.entries, "done")

\* an unlink that removes the entry before it touches the filesystem
unlinkEntryFirst(f, ents, source, wd, fail) ==
    IF ~Exists(f, source, wd) THEN Outcome(f, ents, "exists")
    ELSE IF ~contains(ents, source, wd) THEN Outcome(f, ents, "contains")
    ELSE
    LET re == remove(ents, source, wd)
        rl == IF fail = "read_link" THEN [ok |-> FALSE, to |-> EmptyPath]
              ELSE read_link(f, source, wd)
        rm == IF fail = "remove_file" THEN FsErr(f)
              ELSE remove_file(f, source, wd)
        mv == IF fail = "rename" THEN FsErr(rm.fs)
              ELSE rename(rm.fs, rl.to, source, wd)
    IN  IF ~re.ok THEN Outcome(f, ents, "remove")
        ELSE IF ~rl.ok THEN Outcome(f, re.entries, "read_link")
        ELSE IF ~rm.ok THEN Outcome(f, re.entries, "remove_file")
        ELSE IF ~mv.ok THEN Outcome(rm.fs, re.entries, "rename")
        ELSE Outcome(mv.fs, re.entries, "done")

\* App::unlink; step is where it returned, "done" after `Unlinked!`
unlink(f, ents, source, wd, fail) ==
    IF ~Exists(f, source, wd) THEN Outcome(f, ents, "exists")
    ELSE IF ~contains(ents, source, wd) THEN Outcome(f, ents, "contains")
    ELSE
    LET rl == IF fail = "read_link" THEN [ok |-> FALSE, to |-> EmptyPath]
              ELSE read_link(f, source, wd)
        rm == IF fail = "remove_file" THEN FsErr(f)
              ELSE remove_file(f, source, wd)
        mv == IF fail = "rename" THEN FsErr(rm.fs)
              ELSE rename(rm.fs, rl.to, source, wd)
        re == remove(ents, source, wd)
    IN  IF ~rl.ok THEN Outcome(f, ents, "read_link")
        ELSE IF ~rm.ok THEN Outcome(f, ents, "remove_file")
        ELSE IF ~mv.ok THEN Outcome(rm.fs, ents, "rename")
        ELSE IF ~re.ok THEN Outcome(mv.fs, ents, "remove")
        ELSE Outcome(mv.fs, re.entries, "done")

\* the source paths given to link and unlink
AppSources == {Rel(<<"a">>), Abs(<<"h", "a">>), Abs(<<"e", "b">>)}
\* the current directory of the runs of link and unlink
AppCwdSet == {Abs(<<"h">>)}

\* the filesystem before the first command: the directories, the workspace
\* (App::new has made it), a file at /e/b, and at /h/a a file, a directory
\* or a symbolic link to /e/b
FsBase ==
    (<<>> :> DirNode) @@ (<<"h">> :> DirNode) @@ (<<"e">> :> DirNode)
    @@ (<<"h", "p">> :> DirNode) @@ (Workspace.segs :> DirNode)
    @@ [l \in ({DestAbs(d).segs : d \in Dests}
               \cup {Pop(DestAbs(d)).segs : d \in Dests}) \ {Workspace.segs} |-> NoNode]

InitialFs ==
    { FsBase @@ (<<"h", "a">> :> na) @@ (<<"e", "b">> :> FileNode("B")) :
        na \in {FileNode("A"), DirNode, LinkNode(Abs(<<"e", "b">>))} }

VARIABLES
    fs,      \* the filesystem: location -> node
    fs0,     \* the filesystem before the last command
    appOp,   \* the last command of App, with its arguments and where it returned
    undo,    \* what a successful link replaced, kept for the unlink that follows it
    entries, \* FileMappings.entries: key -> destination relative to the workspace
    entries0,\* the table before the last operation
    fmOp,    \* the last operation on the store, with its arguments and result
    cwd,     \* env::current_dir() of the process
    nIn,     \* the path given to normalize_path
    nOut,    \* normalize_path(nIn)
    nOut2,   \* normalize_path(nOut)
    nKey,    \* strip_src(nIn): the key of the path, as tokens
    nStage,  \* "in": not yet called, "once", then "twice" or "key"
    procs,   \* the processes of the tool that may be started
    pc,      \* where each process is: "off", "new", "ran", "panicked", "saving", "exited", "failed"
    tables,  \* App.file_mappings.entries of each process
    file,    \* workspace/.file_mappings.json: whether it exists, and its text
    saves,   \* the calls of save_entries in the current or last session of each process
    loaded,  \* the table each process had after App::new
    flushed, \* the table given to the last call of save_entries
    overlap, \* the last File::create came while another process was between create and write
    sessions \* the processes started so far

vars == <<fs, fs0, appOp, undo, entries, entries0, fmOp, cwd, nIn, nOut, nOut2, nKey, nStage,
          procs, pc, tables, file, saves, loaded, flushed, overlap, sessions>>

sessVars == <<procs, pc, tables, file, saves, loaded, flushed, overlap, sessions>>

normVars == <<nIn, nOut, nOut2, nKey, nStage>>
storeVars == <<entries, entries0, fmOp>>
appVars == <<fs, fs0, appOp, undo>>

AppOp(op, src, dst, step) == [op |-> op, src |-> src, dst |-> dst, step |-> step]

NoUndo == [kind |-> "none", src |-> EmptyPath, dst |-> EmptyPath,
           node |-> NoNode, entries |-> NoEntries]

\* no command of App yet
AppIdle ==
    /\ fs0 = fs
    /\ appOp = AppOp("new", EmptyPath, EmptyPath, "done")
    /\ undo = NoUndo

\* the process ids
Procs == {1, 2}

\* the persisted file when nothing has created it
NoFile == [exists |-> FALSE, text |-> <<>>]

\* no process of the tool has been started
SessIdle ==
    /\ procs = {}
    /\ pc = [p \in Procs |-> "off"]
    /\ tables = [p \in Procs |-> NoEntries]
    /\ file = NoFile
    /\ saves = [p \in Procs |-> 0]
    /\ loaded = [p \in Procs |-> NoEntries]
    /\ flushed = NoEntries
    /\ overlap = FALSE
    /\ sessions = 0

\* no call of normalize_path on its own
NormIdle ==
    /\ nIn = EmptyPath /\ nOut = EmptyPath /\ nOut2 = EmptyPath
    /\ nKey = <<>> /\ nStage = "in"

FmOp(op, src, dst, ok, out) ==
    [op |-> op, src |-> src, dst |-> dst, ok |-> ok, out |-> out]

\* FileMappings::new: an empty table, no operation yet
StoreNew ==
    /\ entries = NoEntries
    /\ entries0 = NoEntries
    /\ fmOp = FmOp("new", EmptyPath, EmptyPath, TRUE, EmptyPath)

\* ---------------------------------------- normalize_path as a process
NormInit ==
    /\ cwd \in CwdSet
    /\ nIn \in NormInputs
    /\ nOut = EmptyPath
    /\ nOut2 = EmptyPath
    /\ nKey = <<>>
    /\ nStage = "in"
    /\ StoreNew
    /\ fs = FsBase /\ AppIdle
    /\ SessIdle

NormOnce ==
    /\ nStage = "in"
    /\ nOut' = normalize_path(nIn, cwd)
    /\ nStage' = "once"
    /\ UNCHANGED <<cwd, nIn, nOut2, nKey, storeVars, appVars, sessVars>>

NormTwice ==
    /\ nStage = "once"
    /\ nOut2' = normalize_path(nOut, cwd)
    /\ nStage' = "twice"
    /\ UNCHANGED <<cwd, nIn, nOut, nKey, storeVars, appVars, sessVars>>

\* strip_src on the same path
NormKey ==
    /\ nStage = "once"
    /\ nKey' = strip_src(nIn, cwd)
    /\ nStage' = "key"
    /\ UNCHANGED <<cwd, nIn, nOut, nOut2, storeVars, appVars, sessVars>>

NormNext == NormOnce \/ NormTwice \/ NormKey

SpecNorm == NormInit /\ [][NormNext]_vars

\* ------------------------------------------- FileMappings as a process
StoreInit ==
    /\ cwd \in CwdSet
    /\ NormIdle
    /\ StoreNew
    /\ fs = FsBase /\ AppIdle
    /\ SessIdle

FmAdd(src, dst) ==
    LET r == add(entries, src, dst, cwd)
    IN  /\ entries' = r.entries
        /\ entries0' = entries
        /\ fmOp' = FmOp("add", src, dst, r.ok, EmptyPath)
        /\ UNCHANGED <<cwd, normVars, appVars, sessVars>>

FmRemove(src) ==
    LET r == remove(entries, src, cwd)
    IN  /\ entries' = r.entries
        /\ entries0' = entries
        /\ fmOp' = FmOp("remove", src, EmptyPath, r.ok, EmptyPath)
        /\ UNCHANGED <<cwd, normVars, appVars, sessVars>>

FmContains(src) ==
    /\ entries0' = entries
    /\ fmOp' = FmOp("contains", src, EmptyPath, contains(entries, src, cwd), EmptyPath)
    /\ UNCHANGED <<entries, cwd, normVars, appVars, sessVars>>

FmGet(src) ==
    LET r == get(entries, src)
    IN  /\ entries0' = entries
        /\ fmOp' = FmOp("get", src, EmptyPath, r.ok, r.path)
        /\ UNCHANGED <<entries, cwd, normVars, appVars, sessVars>>

StoreNext ==
    \/ \E src \in SrcInputs, dst \in Dests : FmAdd(src, dst)
    \/ \E src \in SrcInputs : FmRemove(src)
    \/ \E src \in SrcInputs : FmContains(src)
    \/ \E src \in SrcInputs : FmGet(src)

SpecStore == StoreInit /\ [][StoreNext]_vars

\* ------------------------------------------------ App as a process
AppInit ==
    /\ cwd \in AppCwdSet
    /\ NormIdle
    /\ StoreNew
    /\ fs \in InitialFs
    /\ AppIdle
    /\ SessIdle

\* the command `link source dest`
Link(source, dest, fail) ==
    LET r == link(fs, entries, source, dest, cwd, fail)
    IN  /\ fs' = r.fs
        /\ entries' = r.entries
        /\ fs0' = fs
        /\ entries0' = entries
        /\ appOp' = AppOp("link", source, dest, r.step)
        /\ undo' = IF r.step = "done"
                   THEN [kind |-> "linked", src |-> source, dst |-> dest,
                         node |-> Stat(fs, source, cwd, FALSE), entries |-> entries]
                   ELSE NoUndo
        /\ UNCHANGED <<fmOp, cwd, normVars, sessVars>>

\* the command `unlink source`
Unlink(source, fail) ==
    LET r == unlink(fs, entries, source, cwd, fail)
    IN  /\ fs' = r.fs
        /\ entries' = r.entries
        /\ fs0' = fs
        /\ entries0' = entries
        /\ appOp' = AppOp("unlink", source, EmptyPath, r.step)
        /\ undo' = IF r.step = "done" /\ undo.kind = "linked" /\ undo.src = source
                   THEN [undo EXCEPT !.kind = "unlinked"]
                   ELSE NoUndo
        /\ UNCHANGED <<fmOp, cwd, normVars, sessVars>>

AppNext ==
    \/ \E source \in AppSources, dest \in Dests, fail \in LinkFails :
          Link(source, dest, fail)
    \/ \E source \in AppSources, fail \in UnlinkFails : Unlink(source, fail)

SpecApp == AppInit /\ [][AppNext]_vars

\* -------------------------- link and unlink with no failing system call
HappyNext ==
    \/ \E source \in AppSources, dest \in Dests : Link(source, dest, "none")
    \/ \E source \in AppSources : Unlink(source, "none")

SpecHappy == AppInit /\ [][HappyNext]_vars

\* ------------------------------------------- the persisted table as text
\* the text of the file is a sequence of tokens: the braces and one token
\* for each member "key": "value"
Open == [t |-> "{", k |-> <<>>, v |-> EmptyPath]
Close == [t |-> "}", k |-> <<>>, v |-> EmptyPath]
Member(key, val) == [t |-> "m", k |-> key, v |-> val]

\* the order of the first bytes: the separator, then letters, then `~`
ByteRank(tok) == IF tok = SEP THEN 1 ELSE IF tok = "~" THEN 3 ELSE 2

\* the order of BTreeMap<String, _> as far as ByteRank decides it
RECURSIVE KeyBefore(_, _)
KeyBefore(a, b) ==
    IF a = <<>> THEN b # <<>>
    ELSE IF b = <<>> THEN FALSE
    ELSE IF Head(a) = Head(b) THEN KeyBefore(Tail(a), Tail(b))
    ELSE ByteRank(Head(a)) < ByteRank(Head(b))

\* the keys in the order the map iterates them
SortedKeys(keys) ==
    CHOOSE q \in [1..Cardinality(keys) -> keys] :
        \A i, j \in 1..Cardinality(keys) :
            i < j => q[i] # q[j] /\ ~KeyBefore(q[j], q[i])

\* serde_json::to_writer_pretty of the entries
to_writer_pretty(ents) ==
    LET q == SortedKeys(DOMAIN ents)
    IN  <<Open>> \o [i \in 1..Len(q) |-> Member(q[i], ents[q[i]])] \o <<Close>>

\* serde_json::from_reader into a map: an error unless the text is one
\* object and nothing else; of two members with one key the later stays
from_reader(text) ==
    LET n == Len(text)
        wellFormed == /\ n >= 2
                      /\ text[1] = Open
                      /\ text[n] = Close
                      /\ \A i \in 2..(n - 1) : text[i].t = "m"
        last(key) == CHOOSE i \in 2..(n - 1) :
                        /\ text[i].k = key
                        /\ \A j \in (i + 1)..(n - 1) : text[j].k # key
    IN  IF wellFormed
        THEN [ok |-> TRUE,
              entries |-> [key \in {text[i].k : i \in 2..(n - 1)} |-> text[last(key)].v]]
        ELSE [ok |-> FALSE, entries |-> NoEntries]

\* a write of `text` at offset 0 of a file that holds `old`
WriteAt0(old, text) == text \o SubSeq(old, Len(text) + 1, Len(old))

\* ------------------------------------------ one process per command
\* the source paths and the failing system calls of the commands
SessSources == {Rel(<<"a">>), Abs(<<"e", "b">>)}
SessFails == {"none", "rename"}

\* the filesystem before the first process: regular files /h/a and /e/b,
\* the workspace there or not, the persisted file not yet
SessInitialFs ==
    LET f == FsBase @@ (<<"h", "a">> :> FileNode("A")) @@ (<<"e", "b">> :> FileNode("B"))
    IN  {f, Write(f, Workspace.segs, NoNode)}

SessInit(ps) ==
    /\ cwd \in AppCwdSet
    /\ NormIdle
    /\ StoreNew
    /\ fs \in SessInitialFs
    /\ AppIdle
    /\ procs = ps
    /\ pc = [p \in Procs |-> "off"]
    /\ tables = [p \in Procs |-> NoEntries]
    /\ file = NoFile
    /\ saves = [p \in Procs |-> 0]
    /\ loaded = [p \in Procs |-> NoEntries]
    /\ flushed = NoEntries
    /\ overlap = FALSE
    /\ sessions = 0

\* main: App::new().unwrap(): the workspace is made if missing, the table
\* is loaded from the file if there is one; an error ends the process
SessNew(p) ==
    /\ p \in procs
    /\ pc[p] \in {"off", "exited", "failed"}
    /\ sessions < MaxSessions
    /\ LET ws == IF Exists(fs, Workspace, cwd) THEN FsOk(fs)
                 ELSE create_dir_all(fs, Workspace, cwd)
           ld == IF ~file.exists THEN [ok |-> TRUE, entries |-> NoEntries]
                 ELSE from_reader(file.text)
       IN  /\ fs' = ws.fs
           /\ IF ws.ok /\ ld.ok
              THEN /\ pc' = [pc EXCEPT ![p] = "new"]
                   /\ tables' = [tables EXCEPT ![p] = ld.entries]
                   /\ loaded' = [loaded EXCEPT ![p] = ld.entries]
                   /\ saves' = [saves EXCEPT ![p] = 0]
              ELSE /\ pc' = [pc EXCEPT ![p] = "failed"]
                   /\ UNCHANGED <<tables, loaded, saves>>
    /\ sessions' = sessions + 1
    /\ UNCHANGED <<fs0, appOp, undo, storeVars, cwd, normVars,
                   procs, file, flushed, overlap>>

\* main: the subcommand `link source dest`
SessLink(p, source, dest, fail) ==
    /\ pc[p] = "new"
    /\ LET r == link(fs, tables[p], source, dest, cwd, fail)
       IN  /\ fs' = r.fs
           /\ tables' = [tables EXCEPT ![p] = r.entries]
           /\ appOp' = AppOp("link", source, dest, r.step)
    /\ fs0' = fs
    /\ pc' = [pc EXCEPT ![p] = "ran"]
    /\ UNCHANGED <<undo, storeVars, cwd, normVars,
                   procs, file, saves, loaded, flushed, overlap, sessions>>

\* main: the subcommand `unlink source`
SessUnlink(p, source, fail) ==
    /\ pc[p] = "new"
    /\ LET r == unlink(fs, tables[p], source, cwd, fail)
       IN  /\ fs' = r.fs
           /\ tables' = [tables EXCEPT ![p] = r.entries]
           /\ appOp' = AppOp("unlink", source, EmptyPath, r.step)
    /\ fs0' = fs
    /\ pc' = [pc EXCEPT ![p] = "ran"]
    /\ UNCHANGED <<undo, storeVars, cwd, normVars,
                   procs, file, saves, loaded, flushed, overlap, sessions>>

\* a restore whose panic ends the process at once, with no unwinding
SessRestoreAbort(p) ==
    /\ pc[p] = "new"
    /\ appOp' = AppOp("restore", EmptyPath, EmptyPath, "panic")
    /\ fs0' = fs
    /\ pc' = [pc EXCEPT ![p] = "exited"]
    /\ UNCHANGED <<fs, undo, storeVars, cwd, normVars,
                   procs, tables, file, saves, loaded, flushed, overlap, sessions>>

\* main: the subcommand `restore`: App::restore panics (unimplemented!),
\* and the unwinding of main drops the App
SessRestore(p) ==
    /\ pc[p] = "new"
    /\ appOp' = AppOp("restore", EmptyPath, EmptyPath, "panic")
    /\ fs0' = fs
    /\ pc' = [pc EXCEPT ![p] = "panicked"]
    /\ UNCHANGED <<fs, undo, storeVars, cwd, normVars,
                   procs, tables, file, saves, loaded, flushed, overlap, sessions>>

\* main: the subcommand `status`, which only reads the table
SessStatus(p) ==
    /\ pc[p] = "new"
    /\ appOp' = AppOp("status", EmptyPath, EmptyPath, "done")
    /\ fs0' = fs
    /\ pc' = [pc EXCEPT ![p] = "ran"]
    /\ UNCHANGED <<fs, undo, storeVars, cwd, normVars,
                   procs, tables, file, saves, loaded, flushed, overlap, sessions>>

\* a File::create that opens the file without truncating it
SessCreateKeep(p) ==
    /\ pc[p] \in {"ran", "panicked"}
    /\ file' = [file EXCEPT !.exists = TRUE]
    /\ overlap' = (\E q \in Procs \ {p} : pc[q] = "saving")
    /\ pc' = [pc EXCEPT ![p] = "saving"]
    /\ UNCHANGED <<appVars, storeVars, cwd, normVars,
                   procs, tables, saves, loaded, flushed, sessions>>

\* Drop for App, first half: File::create makes or truncates the file
SessCreate(p) ==
    /\ pc[p] \in {"ran", "panicked"}
    /\ file' = [exists |-> TRUE, text |-> <<>>]
    /\ overlap' = (\E q \in Procs \ {p} : pc[q] = "saving")
    /\ pc' = [pc EXCEPT ![p] = "saving"]
    /\ UNCHANGED <<appVars, storeVars, cwd, normVars,
                   procs, tables, saves, loaded, flushed, sessions>>

\* Drop for App, second half: save_entries writes the table through the
\* BufWriter, from the start of the file
SessWrite(p) ==
    /\ pc[p] = "saving"
    /\ file' = [file EXCEPT !.text = WriteAt0(file.text, to_writer_pretty(tables[p]))]
    /\ saves' = [saves EXCEPT ![p] = saves[p] + 1]
    /\ flushed' = tables[p]
    /\ pc' = [pc EXCEPT ![p] = "exited"]
    /\ UNCHANGED <<appVars, storeVars, cwd, normVars,
                   procs, tables, loaded, overlap, sessions>>

SessNext ==
    \E p \in Procs :
        \/ SessNew(p)
        \/ \E source \in SessSources, dest \in Dests, fail \in SessFails :
              SessLink(p, source, dest, fail)
        \/ \E source \in SessSources, fail \in SessFails : SessUnlink(p, source, fail)
        \/ SessRestore(p)
        \/ SessStatus(p)
        \/ SessCreate(p)
        \/ SessWrite(p)

\* one process after the other
SessionInit == SessInit({1})
SpecSession == SessionInit /\ [][SessNext]_vars

\* two processes side by side
RaceInit == SessInit(Procs)
SpecRace == RaceInit /\ [][SessNext]_vars

\* -------------------------------------------------- claims: FileMappings
\* the spellings among the inputs that normalize to the same path as src
SameNormalized(src) ==
    {p \in SrcInputs : normalize_path(p, cwd) = normalize_path(src, cwd)}

\* C1: add, contains and remove derive the key identically: once add(p1, d)
\* has succeeded, every spelling p2 that normalizes to the same path has the
\* same key, contains(p2) is true and remove(p2) succeeds.
C1_KeyConsistency ==
    (fmOp.op = "add" /\ fmOp.ok) =>
        \A p2 \in SameNormalized(fmOp.src) :
            /\ strip_src(p2, cwd) = strip_src(fmOp.src, cwd)
            /\ contains(entries, p2, cwd)
            /\ remove(entries, p2, cwd).ok
            /\ ~contains(remove(entries, p2, cwd).entries, fmOp.src, cwd)

\* add("./a", d) succeeded and the absolute spelling is recognised
C1_Witness ==
    /\ fmOp.op = "add" /\ fmOp.ok
    /\ fmOp.src = Rel(<<".", "a">>)
    /\ cwd = Abs(<<"h">>)
    /\ Abs(<<"h", "a">>) \in SameNormalized(fmOp.src)
    /\ contains(entries, Abs(<<"h", "a">>), cwd)

\* C2: no duplicates: an add of a path that is already in the table, in any
\* equivalent spelling and with any destination, fails and leaves the table
\* as it was; no add ever changes or drops an existing entry.
C2_NoDuplicate ==
    fmOp.op = "add" =>
        /\ (\E p \in SameNormalized(fmOp.src) : strip_src(p, cwd) \in DOMAIN entries0)
               => (~fmOp.ok /\ entries = entries0)
        /\ \A k \in DOMAIN entries0 : k \in DOMAIN entries /\ entries[k] = entries0[k]

\* a second add in another spelling and with another destination was refused
C2_Witness ==
    /\ fmOp.op = "add" /\ ~fmOp.ok
    /\ fmOp.src = Abs(<<"h", "a">>)
    /\ strip_src(Rel(<<"a">>), cwd) \in DOMAIN entries
    /\ entries[strip_src(fmOp.src, cwd)] # fmOp.dst

\* C3: remove succeeds exactly when the table holds the key of p; then it
\* deletes that entry and no other, contains(p) is false and a further
\* remove(p) fails; otherwise it fails and leaves the table unchanged.
C3_RemoveThenLookup ==
    fmOp.op = "remove" =>
        LET key == strip_src(fmOp.src, cwd)
        IN  /\ fmOp.ok <=> key \in DOMAIN entries0
            /\ fmOp.ok =>
                  /\ ~contains(entries, fmOp.src, cwd)
                  /\ ~remove(entries, fmOp.src, cwd).ok
                  /\ DOMAIN entries = DOMAIN entries0 \ {key}
                  /\ \A k \in DOMAIN entries : entries[k] = entries0[k]
            /\ ~fmOp.ok => entries = entries0

\* a remove succeeded on a table that held another entry too
C3_Witness ==
    /\ fmOp.op = "remove" /\ fmOp.ok
    /\ strip_src(fmOp.src, cwd) \in DOMAIN entries0
    /\ entries # NoEntries

\* C4: resolve (get) finds the entry of every path that add accepted, in the
\* spelling add accepted, and returns the workspace joined with the stored
\* destination; it reports not-mapped only when the key of p is absent.
C4_ResolveFinds ==
    fmOp.op = "get" =>
        /\ fmOp.ok <=> contains(entries, fmOp.src, cwd)
        /\ fmOp.ok => fmOp.out = Push(Workspace, entries[strip_src(fmOp.src, cwd)])

\* ------------------------------------------------ claims: link, unlink
\* where the source of the last command was, before the command
SrcLoc0 == Resolve(fs0, appOp.src, cwd, FALSE).loc
\* where workspace/dest is
DestLoc(dst) == DestAbs(dst).segs

\* C7: after a link that went through every step, the source path is a
\* symbolic link to workspace/dest, what was at source is at workspace/dest,
\* and the table is the table before plus the one entry key(source) -> dest.
C7_LinkSuccess ==
    (appOp.op = "link" /\ appOp.step = "done") =>
        LET key == strip_src(appOp.src, cwd)
        IN  /\ Node(fs, SrcLoc0) = LinkNode(DestAbs(appOp.dst))
            /\ Node(fs0, SrcLoc0).t \in {"file", "link"}
            /\ Node(fs, DestLoc(appOp.dst)) = Node(fs0, SrcLoc0)
            /\ key \notin DOMAIN entries0
            /\ DOMAIN entries = DOMAIN entries0 \cup {key}
            /\ entries[key] = appOp.dst
            /\ \A k \in DOMAIN entries0 : entries[k] = entries0[k]

\* the regular file /h/a was linked while the table held another entry
C7_Witness ==
    /\ appOp.op = "link" /\ appOp.step = "done"
    /\ appOp.src = Rel(<<"a">>)
    /\ Node(fs0, <<"h", "a">>) = FileNode("A")
    /\ entries0 # NoEntries

\* C8: link of a source that is not an existing regular file (absent, a
\* directory, or a symbolic link, also one to a regular file) fails at the
\* validation and leaves the table and the filesystem untouched.
C8_InvalidSourceRejected ==
    (appOp.op = "link" /\ Node(fs0, SrcLoc0).t # "file") =>
        /\ appOp.step \in {"exists", "is_file"}
        /\ fs = fs0
        /\ entries = entries0

\* C9 (as claimed): a link of a source whose key is already in the table
\* fails and leaves the filesystem, directories included, and the table
\* exactly as they were.
C9_DuplicateLeavesFs ==
    (appOp.op = "link" /\ strip_src(appOp.src, cwd) \in DOMAIN entries0) =>
        /\ appOp.step # "done"
        /\ fs = fs0
        /\ entries = entries0

\* loc is the parent directory of workspace/dst or a directory above it
IsAboveDest(loc, dst) ==
    LET parent == Pop(DestAbs(dst)).segs
    IN  Len(loc) <= Len(parent) /\ SubSeq(parent, 1, Len(loc)) = loc

\* C9 (amended): a link of a source whose key is already in the table fails
\* before the move: no file is moved, no symbolic link is created and the
\* table is unchanged; the only change the filesystem can show is that
\* missing parent directories of workspace/dest have been created.
C9_DuplicateMovesNothing ==
    (appOp.op = "link" /\ strip_src(appOp.src, cwd) \in DOMAIN entries0) =>
        /\ appOp.step \in {"exists", "is_file", "create_dir_all", "add"}
        /\ entries = entries0
        /\ \A loc \in DOMAIN fs \cup DOMAIN fs0 :
              \/ Node(fs, loc) = Node(fs0, loc)
              \/ /\ Node(fs0, loc).t = "none"
                 /\ Node(fs, loc).t = "dir"
                 /\ IsAboveDest(loc, appOp.dst)

\* a duplicate link was refused by add after a directory had been created
C9_Witness ==
    /\ appOp.op = "link" /\ appOp.step = "add"
    /\ strip_src(appOp.src, cwd) \in DOMAIN entries0
    /\ fs # fs0

\* C10: a successful link of an unmanaged regular file followed by a
\* successful unlink of the same source leaves the source a regular file
\* with its content, nothing at workspace/dest, and the table as it was
\* before the link.
C10_LinkUnlinkReverses ==
    (/\ appOp.op = "unlink" /\ appOp.step = "done"
     /\ undo.kind = "unlinked" /\ undo.node.t = "file") =>
        /\ Stat(fs, appOp.src, cwd, FALSE) = undo.node
        /\ Node(fs, DestLoc(undo.dst)).t = "none"
        /\ entries = undo.entries

\* /h/a was linked and unlinked while the table held another entry
C10_Witness ==
    /\ appOp.op = "unlink" /\ appOp.step = "done"
    /\ undo.kind = "unlinked" /\ undo.node = FileNode("A")
    /\ Node(fs, <<"h", "a">>) = FileNode("A")
    /\ entries # NoEntries

\* the table without the entry of key
Without(ents, key) == [k \in DOMAIN ents \ {key} |-> ents[k]]

\* C17: unlink validates, reads the link target, removes the symbolic link,
\* moves the file back and only then removes the entry; a failing step stops
\* the later ones and undoes nothing. When the move back fails after the
\* symbolic link was removed, the source path is absent, the file the link
\* pointed to is still where it was, and the entry is still in the table.
C17_UnlinkOrder ==
    appOp.op = "unlink" =>
        LET key == strip_src(appOp.src, cwd)
            tgt == read_link(fs0, appOp.src, cwd).to
            tloc == Resolve(fs0, tgt, cwd, FALSE).loc
        IN  /\ appOp.step \in {"exists", "contains", "read_link", "remove_file"} =>
                   fs = fs0 /\ entries = entries0
            /\ appOp.step = "rename" =>
                   /\ Node(fs0, SrcLoc0).t = "link"
                   /\ fs = Write(fs0, SrcLoc0, NoNode)
                   /\ Node(fs, tloc).t # "none"
                   /\ Node(fs, tloc) = Node(fs0, tloc)
                   /\ entries = entries0
                   /\ key \in DOMAIN entries
            /\ appOp.step = "done" =>
                   /\ Node(fs, SrcLoc0) = Node(fs0, tloc)
                   /\ Node(fs, tloc) = NoNode
                   /\ key \in DOMAIN entries0
                   /\ entries = Without(entries0, key)
            /\ entries # entries0 => appOp.step = "done"

\* the move back of workspace/d1 to /h/a failed after the link at /h/a was removed
C17_Witness ==
    /\ appOp.op = "unlink" /\ appOp.step = "rename"
    /\ Node(fs0, <<"h", "a">>) = LinkNode(DestAbs(Rel(<<"d1">>)))
    /\ Node(fs, <<"h", "a">>) = NoNode
    /\ Node(fs, DestLoc(Rel(<<"d1">>))) = FileNode("A")
    /\ strip_src(appOp.src, cwd) \in DOMAIN entries

\* C20: link never destroys an already relocated file: a link whose
\* workspace/dest already holds something leaves it as it was, and no two
\* entries of the table have the same relocated path.
C20_NoOverwrite ==
    /\ (appOp.op = "link" /\ Node(fs0, DestLoc(appOp.dst)).t # "none") =>
           Node(fs, DestLoc(appOp.dst)) = Node(fs0, DestLoc(appOp.dst))
    /\ \A k1, k2 \in DOMAIN entries :
           k1 # k2 => entries[k1] # entries[k2]

\* ------------------------------------------------ claims: normalize_path
\* a path that is absolute and has no `.`, `..` or empty component
IsLexicallyResolved(p) ==
    /\ p.abs
    /\ \A i \in 1..Len(p.segs) : p.segs[i] \notin {".", "..", ""}

\* C5: normalization is idempotent: for every input path and a fixed current
\* directory, normalize(normalize(p)) = normalize(p).
C5_Idempotent == nStage = "twice" => nOut2 = nOut

\* C6: for every input path, normalize returns an absolute path that has no
\* `.` or `..` component.
C6_AbsoluteResolved == nStage # "in" => IsLexicallyResolved(nOut)

\* the path a text names: the inverse of Str
ParseStr(toks) ==
    LET isAbs == toks # <<>> /\ toks[1] = SEP
        body == IF isAbs THEN Tail(toks) ELSE toks
    IN  [abs |-> isAbs, segs |-> SelectSeq(body, LAMBDA t : t # SEP)]

\* an absolute path whose first names are those of the home directory
UnderHome(p) ==
    /\ p.abs
    /\ Len(p.segs) >= Len(HomeDir.segs)
    /\ SubSeq(p.segs, 1, Len(HomeDir.segs)) = HomeDir.segs

\* C13: home-rewrite round trip: when normalize(p) is the home directory or
\* below it, key(p) starts with `~` and the separator, and the home directory
\* joined with the rest of the key is normalize(p); otherwise key(p) is the
\* whole text of normalize(p).
C13_HomeRoundTrip ==
    nStage = "key" =>
        IF UnderHome(nOut)
        THEN /\ Len(nKey) >= 2
             /\ nKey[1] = "~"
             /\ nKey[2] = SEP
             /\ Push(HomeDir, ParseStr(SubSeq(nKey, 3, Len(nKey)))) = nOut
        ELSE nKey = Str(nOut)

\* the key of a relative spelling of /h/a was taken
C13_Witness ==
    /\ nStage = "key"
    /\ ~nIn.abs
    /\ nOut = Abs(<<"h", "a">>)
    /\ nKey = <<"~", SEP, "a">>

\* the names left of `base` followed by `segs` once every `.` and empty name
\* is dropped and every `..` has taken the name before it (none at the root)
RECURSIVE LexResolve(_, _)
LexResolve(base, segs) ==
    IF segs = <<>> THEN base
    ELSE LET s == Head(segs)
         IN  IF s = "" \/ s = "." THEN LexResolve(base, Tail(segs))
             ELSE IF s = ".." THEN
                 LexResolve(IF base = <<>> THEN <<>>
                            ELSE SubSeq(base, 1, Len(base) - 1), Tail(segs))
             ELSE LexResolve(Append(base, s), Tail(segs))

\* the first component of a relative path is a plain name
StartsWithName(p) ==
    /\ ~p.abs
    /\ p.segs # <<>>
    /\ Head(p.segs) \notin {"", ".", ".."}

\* C14: a relative path whose first component is a plain name is normalized
\* as if it had a leading `.`: normalize(p) = normalize("./" + p), and both
\* are the working directory followed by p's lexically resolved components.
C14_PlainNameAsCurDir ==
    (nStage # "in" /\ StartsWithName(nIn)) =>
        /\ nOut = normalize_path(Rel(<<".">> \o nIn.segs), cwd)
        /\ nOut = Abs(LexResolve(cwd.segs, nIn.segs))

\* a/../h was normalized in /h/p
C14_Witness ==
    /\ nStage = "once"
    /\ cwd = Abs(<<"h", "p">>)
    /\ nIn = Rel(<<"a", "..", "h">>)
    /\ nOut = Abs(<<"h", "p", "h">>)

\* position i of p holds a `.` that has a component before it
InnerDot(p, i) ==
    /\ i \in 1..Len(p.segs)
    /\ p.segs[i] = "."
    /\ (p.abs \/ \E j \in 1..(i - 1) : p.segs[j] # "")

\* p without the name at position i
DropSeg(p, i) ==
    [abs |-> p.abs,
     segs |-> SubSeq(p.segs, 1, i - 1) \o SubSeq(p.segs, i + 1, Len(p.segs))]

\* C15 as stated: a `.` at any position restarts the result from the working
\* directory: for a path with components before its last `.`, normalize
\* returns the working directory followed by the components after that `.`.
C15_DotReanchors ==
    nStage # "in" =>
        \A i \in 1..Len(nIn.segs) :
            (/\ InnerDot(nIn, i)
             /\ \A k \in (i + 1)..Len(nIn.segs) : nIn.segs[k] # ".") =>
                nOut = Abs(LexResolve(cwd.segs,
                                      SubSeq(nIn.segs, i + 1, Len(nIn.segs))))

\* C15 amended: only a `.` that is the first component of a relative path
\* anchors the result at the working directory; a `.` with a component
\* before it is a no-op: the result is that of the path without it.
C15_InnerDotIsNoOp ==
    nStage # "in" =>
        /\ \A i \in 1..Len(nIn.segs) :
               InnerDot(nIn, i) => nOut = normalize_path(DropSeg(nIn, i), cwd)
        /\ (~nIn.abs /\ nIn.segs # <<>> /\ Head(nIn.segs) = ".") =>
               nOut = Abs(LexResolve(cwd.segs, Tail(nIn.segs)))

\* /a/./h was normalized in /e and kept the `a`
C15_Witness ==
    /\ nStage = "once"
    /\ cwd = Abs(<<"e">>)
    /\ nIn = Abs(<<"a", ".", "h">>)
    /\ nOut = Abs(<<"a", "h">>)

\* C19: the key is collision-free: two inputs whose normalized paths differ
\* have different keys, so no path outside the home directory has the key of
\* a path under it.
C19_KeyInjective ==
    nStage = "key" =>
        \A p2 \in NormInputs :
            normalize_path(p2, cwd) # nOut => strip_src(p2, cwd) # nKey

\* ------------------------------------------ claims: table and filesystem
\* the source path a key of the table stands for
KeyPath(key) ==
    IF Len(key) >= 2 /\ key[1] = "~" /\ key[2] = SEP
    THEN Push(HomeDir, ParseStr(SubSeq(key, 3, Len(key))))
    ELSE ParseStr(key)

\* every location of the filesystem that holds a symbolic link into the workspace
WorkspaceLinks ==
    {l \in DOMAIN fs : Node(fs, l).t = "link" /\ HasPrefix(Node(fs, l).to, Workspace)}

\* C11: as long as no filesystem step fails, the filesystem and the table
\* agree: for every entry (key, rel) the source path of key is a symbolic
\* link to workspace/rel and something is at workspace/rel, and every
\* symbolic link into the workspace is the source of an entry.
C11_HappyConsistency ==
    /\ \A key \in DOMAIN entries :
           /\ Stat(fs, KeyPath(key), cwd, FALSE) = LinkNode(DestAbs(entries[key]))
           /\ Node(fs, DestLoc(entries[key])).t # "none"
    /\ \A l \in WorkspaceLinks :
           \E key \in DOMAIN entries : KeyPath(key) = Abs(l)

\* ------------------------------------------------------ claims: sessions
\* the table a process loaded with the mutation of its command applied: the
\* entry of a link that got past add, less the entry of an unlink that
\* reached its end
Expected(p) ==
    LET key == strip_src(appOp.src, cwd)
    IN  IF appOp.op = "link" /\ appOp.step \in {"rename", "symlink", "done"}
        THEN [k \in DOMAIN loaded[p] \cup {key} |->
                 IF k = key THEN appOp.dst ELSE loaded[p][k]]
        ELSE IF appOp.op = "unlink" /\ appOp.step = "done"
        THEN Without(loaded[p], key)
        ELSE loaded[p]

\* C12: a session writes the table exactly once, at its end, whatever its
\* command did (succeed, fail at a step, or panic in restore); what is
\* written is the table in memory at that point, which is the loaded table
\* with the command's completed add or remove applied, and the next session
\* loads exactly that table.
C12_FlushOnce ==
    \A p \in procs :
        /\ pc[p] \in {"new", "ran", "panicked", "saving"} => saves[p] = 0
        /\ pc[p] = "new" =>
               tables[p] = (IF file.exists THEN flushed ELSE NoEntries)
        /\ pc[p] = "exited" =>
               /\ saves[p] = 1
               /\ flushed = Expected(p)
               /\ from_reader(file.text) = [ok |-> TRUE, entries |-> flushed]

\* a session that loaded a table with an entry ran restore and has ended
C12_Witness ==
    /\ pc[1] = "exited"
    /\ appOp.op = "restore"
    /\ saves[1] = 1
    /\ loaded[1] # NoEntries
    /\ from_reader(file.text).entries = loaded[1]

\* C16: when add has succeeded and the move of source to workspace/dest
\* fails, link stops with no rollback: the new entry stays in the table,
\* source is still the regular file it was, no symbolic link is made, and
\* the entry is in the table written at the end of the session.
C16_RenameFailure ==
    (appOp.op = "link" /\ appOp.step = "rename") =>
        LET key == strip_src(appOp.src, cwd)
        IN  /\ Node(fs0, SrcLoc0).t = "file"
            /\ Node(fs, SrcLoc0) = Node(fs0, SrcLoc0)
            /\ Node(fs, DestLoc(appOp.dst)) = Node(fs0, DestLoc(appOp.dst))
            /\ \A l \in DOMAIN fs : Node(fs, l).t = "link" => Node(fs0, l) = Node(fs, l)
            /\ \A p \in procs :
                   /\ pc[p] \in {"ran", "saving"} =>
                          /\ key \notin DOMAIN loaded[p]
                          /\ key \in DOMAIN tables[p]
                          /\ tables[p][key] = appOp.dst
                   /\ pc[p] = "exited" =>
                          /\ from_reader(file.text).ok
                          /\ key \in DOMAIN from_reader(file.text).entries
                          /\ from_reader(file.text).entries[key] = appOp.dst

\* the move of /h/a failed and the session has ended
C16_Witness ==
    /\ appOp = AppOp("link", Rel(<<"a">>), Rel(<<"d1">>), "rename")
    /\ pc[1] = "exited"
    /\ Node(fs, <<"h", "a">>) = FileNode("A")
    /\ Node(fs, DestLoc(Rel(<<"d1">>))) = NoNode
    /\ file.text = <<Open, Member(<<"~", SEP, "a">>, Rel(<<"d1">>)), Close>>

\* ----------------------------------------------- claims: two processes
\* both processes have run a session to its end
BothExited == procs = Procs /\ \A p \in Procs : pc[p] = "exited"

\* C18 as stated: when two invocations that ran side by side have both
\* finished, the persisted table is the in-memory table of whichever saved
\* last.
C18_LastWriterWins ==
    BothExited => from_reader(file.text) = [ok |-> TRUE, entries |-> flushed]

\* C18 amended: the file starts with the text of whichever wrote last; it
\* is that table, with a mutation of the other invocation possibly missing,
\* unless the two saves overlapped (both had created the file before either
\* wrote), and then the rest of the earlier text may follow.
C18_LastWriterUnlessOverlap ==
    BothExited =>
        LET text == to_writer_pretty(flushed)
        IN  /\ Len(file.text) >= Len(text)
            /\ SubSeq(file.text, 1, Len(text)) = text
            /\ ~overlap => from_reader(file.text) = [ok |-> TRUE, entries |-> flushed]

\* both ran without overlap of the saves; /h/a is linked to workspace/d1 but
\* the persisted table has no entry for it
C18_Witness ==
    /\ BothExited
    /\ ~overlap
    /\ Node(fs, <<"h", "a">>) = LinkNode(DestAbs(Rel(<<"d1">>)))
    /\ Node(fs, DestLoc(Rel(<<"d1">>))) = FileNode("A")
    /\ from_reader(file.text).ok
    /\ <<"~", SEP, "a">> \notin DOMAIN from_reader(file.text).entries

====
